---- MODULE Spec2Model ----
(***************************************************************************)
(* Region quadtree of bratter/quadtree: the point tree                     *)
(* (src/quadtrees/point), the bounds tree (src/quadtrees/bounds), the      *)
(* shared node logic (src/node.rs) and the searches (find_r, knn, sorted). *)
(*                                                                         *)
(* Coordinates are integers.  The root rectangle is [0,RootMax]^2 with     *)
(* RootMax a power of two and every datum coordinate is even, so that each *)
(* halving done by subdivide / find_sub_node / datum_position is exact.    *)
(* Distances are carried squared (dist_sq_pt_pt, dist_sq_pt_line of        *)
(* src/geom/euclidean/math.rs): the square root is strictly monotone, so   *)
(* every comparison of two distances in the code has the same outcome on   *)
(* the squares, and a radius r is given by its square.                     *)
(*                                                                         *)
(* root, size, last and iter are the tree and the result of the last call. *)
(* arena and calls hold the tree and the pending calls of Node::insert     *)
(* where insert is followed call by call (SpecDeep); the earlier versions  *)
(* of the tree kept in the repository (src/lib.rs, src/bounds_node.rs)     *)
(* have their own operators and specifications (SpecLib, SpecDraftBounds). *)
(***************************************************************************)
EXTENDS Integers, Sequences, FiniteSets, TLC

VARIABLES variant, root, size, nextId, stored, last, iter, arena, calls

vars == <<variant, root, size, nextId, stored, last, iter, arena, calls>>

-----------------------------------------------------------------------------
(* Bounds of the model *)

MaxInserts == 3
MaxDepth == 2
MaxChildren == 2

(* Root rectangle of the trees that are built: r(0.0, 0.0, 32.0, 32.0) *)
RootMax == 32

(* depth and max_depth are u8; u8 addition wraps where the build does not *)
(* check it                                                                *)
U8Max == 255
U8Add(a, b) == (a + b) % (U8Max + 1)

-----------------------------------------------------------------------------
(* Option, Result *)

None == <<>>
Some(v) == <<v>>
IsSome(o) == o # <<>>
Unwrap(o) == o[1]

Ok == "Ok"
OutOfBounds == "OutOfBounds"
CannotMakeBbox == "CannotMakeBbox"
CannotFindSubNode == "CannotFindSubNode"
NoneInRadius == "NoneInRadius"
Empty == "Empty"

-----------------------------------------------------------------------------
(* Geometry *)

Rect(x1, y1, x2, y2) == [x1 |-> x1, y1 |-> y1, x2 |-> x2, y2 |-> y2]

Width(r) == r.x2 - r.x1
Height(r) == r.y2 - r.y1

Half(w) == w \div 2

(* A datum: a Point (x1 = x2, y1 = y2), a Rect, or a LineString.  The only  *)
(* LineString of the model is the empty one, LineString::new(vec![]), the  *)
(* geometry for which geo's bounding_rect() is None.                       *)
Datum(id, kind, x1, y1, x2, y2) ==
    [id |-> id, kind |-> kind, x1 |-> x1, y1 |-> y1, x2 |-> x2, y2 |-> y2]

(* Placeholder where a Result carries no datum *)
NoDatum == Datum(0, "Point", 0, 0, 0, 0)

AsPoint(d) == [x |-> d.x1, y |-> d.y1]

BoundingRect(d) ==
    CASE d.kind = "Point" -> Some(Rect(d.x1, d.y1, d.x1, d.y1))
      [] d.kind = "Rect" -> Some(Rect(d.x1, d.y1, d.x2, d.y2))
      [] d.kind = "LineString" -> None

PtInRectStrict(rect, pt) ==
    pt.x > rect.x1 /\ pt.x < rect.x2 /\ pt.y > rect.y1 /\ pt.y < rect.y2
pt_in_rect(rect, pt) ==
    pt.x >= rect.x1 /\ pt.x <= rect.x2 /\ pt.y >= rect.y1 /\ pt.y <= rect.y2

rect_in_rect(r1, r2) ==
    r1.x1 <= r2.x1 /\ r1.x2 >= r2.x2 /\ r1.y1 <= r2.y1 /\ r1.y2 >= r2.y2

(* geo's Intersects for two Rects: closed rectangles sharing a point *)
Intersects(r1, r2) ==
    ~(r1.x2 < r2.x1 \/ r2.x2 < r1.x1 \/ r1.y2 < r2.y1 \/ r2.y2 < r1.y1)

-----------------------------------------------------------------------------
(* Node (src/node.rs) *)

TopLeft == 0
TopRight == 1
BottomRight == 2
BottomLeft == 3

NewNode(bounds, depth, max_depth, max_children) ==
    [bounds |-> bounds, depth |-> depth, max_depth |-> max_depth,
     max_children |-> max_children, children |-> <<>>,
     stuck_children |-> <<>>, nodes |-> None]

(* nodes is None or Some(<<tl, tr, br, bl>>) *)
HasNodes(n) == IsSome(n.nodes)
SubNodes(n) == Unwrap(n.nodes)
SubNodeAt(n, idx) == SubNodes(n)[idx + 1]

PointDatumPosition(d) == Some(AsPoint(d))

BoundsDatumPositionMin(d) ==
    LET bb == BoundingRect(d) IN
    IF ~IsSome(bb) THEN None
    ELSE Some([x |-> Unwrap(bb).x1, y |-> Unwrap(bb).y1])
BoundsDatumPosition(d) ==
    LET bb == BoundingRect(d) IN
    IF ~IsSome(bb) THEN None
    ELSE LET bbox == Unwrap(bb) IN
         Some([x |-> bbox.x1 + Half(Width(bbox)), y |-> bbox.y1 + Half(Height(bbox))])

FindSubNodeSwapped(b, position) ==
    IF ~IsSome(position) THEN None
    ELSE LET p == Unwrap(position)
             left == p.x <= b.x1 + Half(Width(b))
             top == p.y <= b.y1 + Half(Height(b))
         IN Some(IF left /\ top THEN TopLeft
                 ELSE IF ~left /\ top THEN TopRight
                 ELSE IF left /\ ~top THEN BottomRight
                 ELSE BottomLeft)
FindSubNodeStrict(b, position) ==
    IF ~IsSome(position) THEN None
    ELSE LET p == Unwrap(position)
             left == p.x < b.x1 + Half(Width(b))
             top == p.y < b.y1 + Half(Height(b))
         IN Some(IF left /\ top THEN TopLeft
                 ELSE IF ~left /\ top THEN TopRight
                 ELSE IF left /\ ~top THEN BottomLeft
                 ELSE BottomRight)
FindSubNode(b, position) ==
    IF ~IsSome(position) THEN None
    ELSE LET p == Unwrap(position)
             left == p.x <= b.x1 + Half(Width(b))
             top == p.y <= b.y1 + Half(Height(b))
         IN Some(IF left /\ top THEN TopLeft
                 ELSE IF ~left /\ top THEN TopRight
                 ELSE IF left /\ ~top THEN BottomLeft
                 ELSE BottomRight)

SubdivideSwapped(n) ==
    LET bounds == n.bounds
        depth == U8Add(n.depth, 1)
        md == n.max_depth
        mc == n.max_children
        wh == Half(Width(bounds))
        hh == Half(Height(bounds))
        x1 == bounds.x1
        y1 == bounds.y1
        x2 == x1 + wh
        y2 == y1 + hh
        x3 == bounds.x2
        y3 == bounds.y2
    IN [n EXCEPT !.nodes = Some(<<NewNode(Rect(x1, y1, x2, y2), depth, md, mc),
                                  NewNode(Rect(x2, y1, x3, y2), depth, md, mc),
                                  NewNode(Rect(x1, y2, x2, y3), depth, md, mc),
                                  NewNode(Rect(x2, y2, x3, y3), depth, md, mc)>>)]
Subdivide(n) ==
    LET bounds == n.bounds
        depth == U8Add(n.depth, 1)
        md == n.max_depth
        mc == n.max_children
        wh == Half(Width(bounds))
        hh == Half(Height(bounds))
        x1 == bounds.x1
        y1 == bounds.y1
        x2 == x1 + wh
        y2 == y1 + hh
        x3 == bounds.x2
        y3 == bounds.y2
    IN [n EXCEPT !.nodes = Some(<<NewNode(Rect(x1, y1, x2, y2), depth, md, mc),
                                  NewNode(Rect(x2, y1, x3, y2), depth, md, mc),
                                  NewNode(Rect(x2, y2, x3, y3), depth, md, mc),
                                  NewNode(Rect(x1, y2, x2, y3), depth, md, mc)>>)]

(* children(): direct children, then (bounds variant) the stuck children *)
ChildrenDirectOnly(n) == n.children
Children(n) == n.children \o n.stuck_children

RECURSIVE AllNodes(_)
AllNodes(n) ==
    IF HasNodes(n)
    THEN {n} \cup UNION {AllNodes(SubNodes(n)[i]) : i \in 1..4}
    ELSE {n}

RECURSIVE Descendants(_)
RECURSIVE DescendantsOfNodes(_, _)
DescendantsOfNodes(nodes, i) ==
    IF i > Len(nodes) THEN <<>>
    ELSE Descendants(nodes[i]) \o DescendantsOfNodes(nodes, i + 1)
DescendantsPostorder(n) ==
    IF HasNodes(n)
    THEN DescendantsOfNodes(SubNodes(n), 1) \o Children(n)
    ELSE Children(n)
Descendants(n) ==
    IF HasNodes(n)
    THEN Children(n) \o DescendantsOfNodes(SubNodes(n), 1)
    ELSE Children(n)

-----------------------------------------------------------------------------
(* PointNode (src/quadtrees/point/node.rs) *)

(* Result of Node::insert: the node as the call leaves it, and Ok or the   *)
(* error.  On an early return by `?` the sub-nodes taken by                *)
(* self.nodes.take() are dropped with the local that holds them.           *)
InsertResult(n, err) == [node |-> n, err |-> err]

RECURSIVE PointNodeInsert(_, _)
RECURSIVE PointReinsert(_, _, _)

PointReinsertDropFirst(n, children, i) ==
    IF i > Len(children) THEN InsertResult(n, Ok)
    ELSE IF i = 1 /\ Len(children) > 1 THEN PointReinsert(n, children, 2)
    ELSE LET r == PointNodeInsert(n, children[i]) IN
         IF r.err # Ok THEN r
         ELSE PointReinsert(r.node, children, i + 1)
(* for pt in children { self.insert(pt)?; } *)
PointReinsert(n, children, i) ==
    IF i > Len(children) THEN InsertResult(n, Ok)
    ELSE LET r == PointNodeInsert(n, children[i]) IN
         IF r.err # Ok THEN r
         ELSE PointReinsert(r.node, children, i + 1)

PointNodeInsertLate(n, datum) ==
    IF HasNodes(n) THEN
        LET taken == [n EXCEPT !.nodes = None]
            sn == FindSubNode(n.bounds, PointDatumPosition(datum))
        IN IF ~IsSome(sn) THEN InsertResult(taken, CannotFindSubNode)
           ELSE LET idx == Unwrap(sn)
                    r == PointNodeInsert(SubNodeAt(n, idx), datum)
                IN IF r.err # Ok THEN InsertResult(taken, r.err)
                   ELSE InsertResult(
                            [n EXCEPT !.nodes = Some([SubNodes(n) EXCEPT ![idx + 1] = r.node])],
                            Ok)
    ELSE IF Len(n.children) > n.max_children /\ ~(n.depth >= n.max_depth) THEN
        LET children == Append(n.children, datum)
            sub == [Subdivide(n) EXCEPT !.children = <<>>]
        IN PointReinsert(sub, children, 1)
    ELSE InsertResult([n EXCEPT !.children = Append(@, datum)], Ok)
PointNodeInsertDeeper(n, datum) ==
    IF HasNodes(n) THEN
        LET taken == [n EXCEPT !.nodes = None]
            sn == FindSubNode(n.bounds, PointDatumPosition(datum))
        IN IF ~IsSome(sn) THEN InsertResult(taken, CannotFindSubNode)
           ELSE LET idx == Unwrap(sn)
                    r == PointNodeInsert(SubNodeAt(n, idx), datum)
                IN IF r.err # Ok THEN InsertResult(taken, r.err)
                   ELSE InsertResult(
                            [n EXCEPT !.nodes = Some([SubNodes(n) EXCEPT ![idx + 1] = r.node])],
                            Ok)
    ELSE IF Len(n.children) >= n.max_children /\ ~(n.depth > n.max_depth) THEN
        LET children == Append(n.children, datum)
            sub == [Subdivide(n) EXCEPT !.children = <<>>]
        IN PointReinsert(sub, children, 1)
    ELSE InsertResult([n EXCEPT !.children = Append(@, datum)], Ok)
PointNodeInsert(n, datum) ==
    IF HasNodes(n) THEN
        LET taken == [n EXCEPT !.nodes = None]
            sn == FindSubNode(n.bounds, PointDatumPosition(datum))
        IN IF ~IsSome(sn) THEN InsertResult(taken, CannotFindSubNode)
           ELSE LET idx == Unwrap(sn)
                    r == PointNodeInsert(SubNodeAt(n, idx), datum)
                IN IF r.err # Ok THEN InsertResult(taken, r.err)
                   ELSE InsertResult(
                            [n EXCEPT !.nodes = Some([SubNodes(n) EXCEPT ![idx + 1] = r.node])],
                            Ok)
    ELSE IF Len(n.children) >= n.max_children /\ ~(n.depth >= n.max_depth) THEN
        LET children == Append(n.children, datum)
            sub == [Subdivide(n) EXCEPT !.children = <<>>]
        IN PointReinsert(sub, children, 1)
    ELSE InsertResult([n EXCEPT !.children = Append(@, datum)], Ok)

-----------------------------------------------------------------------------
(* BoundsNode (src/quadtrees/bounds/node.rs) *)

RECURSIVE BoundsNodeInsert(_, _)
RECURSIVE BoundsReinsert(_, _, _)

BoundsReinsert(n, children, i) ==
    IF i > Len(children) THEN InsertResult(n, Ok)
    ELSE LET r == BoundsNodeInsert(n, children[i]) IN
         IF r.err # Ok THEN r
         ELSE BoundsReinsert(r.node, children, i + 1)

BoundsNodeInsert(n, datum) ==
    IF HasNodes(n) THEN
        LET taken == [n EXCEPT !.nodes = None]
            bb == BoundingRect(datum)
            sn == FindSubNode(n.bounds, BoundsDatumPosition(datum))
        IN IF ~IsSome(bb) THEN InsertResult(taken, CannotMakeBbox)
           ELSE IF ~IsSome(sn) THEN InsertResult(taken, CannotFindSubNode)
           ELSE LET idx == Unwrap(sn)
                    sub_node == SubNodeAt(n, idx)
                IN IF rect_in_rect(sub_node.bounds, Unwrap(bb))
                   THEN LET r == BoundsNodeInsert(sub_node, datum) IN
                        IF r.err # Ok THEN InsertResult(taken, r.err)
                        ELSE InsertResult(
                                 [n EXCEPT !.nodes = Some([SubNodes(n) EXCEPT ![idx + 1] = r.node])],
                                 Ok)
                   ELSE InsertResult(
                            [n EXCEPT !.stuck_children = Append(@, datum)], Ok)
    ELSE IF Len(n.children) >= n.max_children /\ ~(n.depth >= n.max_depth) THEN
        LET children == Append(n.children, datum)
            sub == [Subdivide(n) EXCEPT !.children = <<>>]
        IN BoundsReinsert(sub, children, 1)
    ELSE InsertResult([n EXCEPT !.children = Append(@, datum)], Ok)

-----------------------------------------------------------------------------
(* Node::insert call by call.  The nodes live in an arena: arena[1] is the *)
(* root, and the Box<[Self; 4]> of a subdivided node is the tuple of the   *)
(* arena indices of its sub-nodes.  calls is the stack of the calls of      *)
(* Node::insert that are running or still to be made by a re-insert loop,  *)
(* the running one first.                                                  *)

Call(node, datum) == [node |-> node, datum |-> datum]

(* Node::datum_position of the variant *)
DatumPosition(v, d) ==
    IF v = "point" THEN PointDatumPosition(d) ELSE BoundsDatumPosition(d)

(* The guard of the subdividing arm *)
ShouldSubdivideUncapped(n) == Len(n.children) >= n.max_children
ShouldSubdivide(n) == Len(n.children) >= n.max_children /\ ~(n.depth >= n.max_depth)

(* self.subdivide() on arena[id]: four new nodes at the end of the arena *)
ArenaSubdivide(a, id) ==
    LET base == Len(a) IN
    [a EXCEPT ![id].nodes = Some(<<base + 1, base + 2, base + 3, base + 4>>)]
        \o SubNodes(Subdivide(a[id]))

(* One call of Node::insert up to its next recursive call or its return:   *)
(* the arena and the call stack it leaves                                  *)
NodeInsertCall(v, a, stack) ==
    LET c == Head(stack)
        rest == Tail(stack)
        n == a[c.node]
        datum == c.datum
    IN IF HasNodes(n) THEN
           LET sub_node_idx == Unwrap(FindSubNode(n.bounds, DatumPosition(v, datum)))
               sub_node == SubNodes(n)[sub_node_idx + 1]
           IN IF v = "point" \/ rect_in_rect(a[sub_node].bounds, Unwrap(BoundingRect(datum)))
              THEN [arena |-> a, calls |-> <<Call(sub_node, datum)>> \o rest]
              ELSE [arena |-> [a EXCEPT ![c.node].stuck_children = Append(@, datum)],
                    calls |-> rest]
       ELSE IF ShouldSubdivide(n) THEN
           LET children == Append(n.children, datum) IN
           [arena |-> [ArenaSubdivide(a, c.node) EXCEPT ![c.node].children = <<>>],
            calls |-> [i \in 1..Len(children) |-> Call(c.node, children[i])] \o rest]
       ELSE [arena |-> [a EXCEPT ![c.node].children = Append(@, datum)], calls |-> rest]

-----------------------------------------------------------------------------
(* The earlier BoundsNode (src/bounds_node.rs): insert returns nothing,    *)
(* every datum has bounds                                                  *)

(* "based on the datum's top-left point from its bounds" *)
DraftDatumPosition(d) == Some([x |-> d.x1, y |-> d.y1])

RECURSIVE DraftBoundsNodeInsert(_, _)
RECURSIVE DraftBoundsReinsert(_, _, _)

(* for pt in children { self.insert(pt); } *)
DraftBoundsReinsert(n, children, i) ==
    IF i > Len(children) THEN n
    ELSE DraftBoundsReinsert(DraftBoundsNodeInsert(n, children[i]), children, i + 1)

DraftBoundsNodeInsert(n, datum) ==
    IF HasNodes(n) THEN
        LET sub_node_idx == Unwrap(FindSubNode(n.bounds, DraftDatumPosition(datum)))
            sub_node == SubNodeAt(n, sub_node_idx)
            after == IF rect_in_rect(sub_node.bounds, datum)
                     THEN DraftBoundsNodeInsert(sub_node, datum)
                     ELSE [sub_node EXCEPT !.stuck_children = Append(@, datum)]
        IN [n EXCEPT !.nodes = Some([SubNodes(n) EXCEPT ![sub_node_idx + 1] = after])]
    ELSE IF Len(n.children) >= n.max_children /\ ~(n.depth >= n.max_depth) THEN
        LET children == Append(n.children, datum)
            sub == [Subdivide(n) EXCEPT !.children = <<>>]
        IN DraftBoundsReinsert(sub, children, 1)
    ELSE [n EXCEPT !.children = Append(@, datum)]

-----------------------------------------------------------------------------
(* The first QuadTree (src/lib.rs): points only, bounds held as origin,    *)
(* width and height, insert returns nothing                                *)

LibBounds(x, y, width, height) == [x |-> x, y |-> y, width |-> width, height |-> height]

(* Point::in_bounds *)
LibInBounds(pt, bounds) ==
    LET x1 == bounds.x
        x2 == x1 + bounds.width
        y1 == bounds.y
        y2 == y1 + bounds.height
        x == pt.x1
        y == pt.y1
    IN x >= x1 /\ x <= x2 /\ y >= y1 /\ x <= y2

LibNewNode(bounds, depth, max_depth, max_children) ==
    [bounds |-> bounds, depth |-> depth, max_depth |-> max_depth,
     max_children |-> max_children, children |-> <<>>, nodes |-> None]

LibFindSubNode(n, pt) ==
    LET b == n.bounds
        left == pt.x1 <= b.x + Half(b.width)
        top == pt.y1 <= b.y + Half(b.height)
    IN IF left /\ top THEN TopLeft
       ELSE IF ~left /\ top THEN TopRight
       ELSE IF left /\ ~top THEN BottomLeft
       ELSE BottomRight

LibSubdivide(n) ==
    LET depth == n.depth + 1
        md == n.max_depth
        mc == n.max_children
        wh == Half(n.bounds.width)
        hh == Half(n.bounds.height)
        x1 == n.bounds.x
        y1 == n.bounds.y
        x2 == x1 + wh
        y2 == y1 + hh
    IN [n EXCEPT !.nodes = Some(<<LibNewNode(LibBounds(x1, y1, wh, hh), depth, md, mc),
                                  LibNewNode(LibBounds(x1, y2, wh, hh), depth, md, mc),
                                  LibNewNode(LibBounds(x2, y2, wh, hh), depth, md, mc),
                                  LibNewNode(LibBounds(x2, y1, wh, hh), depth, md, mc)>>)]

RECURSIVE LibNodeInsert(_, _)
RECURSIVE LibReinsert(_, _, _)

(* for pt in children { self.insert(pt); } *)
LibReinsert(n, children, i) ==
    IF i > Len(children) THEN n
    ELSE LibReinsert(LibNodeInsert(n, children[i]), children, i + 1)

LibNodeInsert(n, pt) ==
    IF HasNodes(n) THEN
        LET sub_node_idx == LibFindSubNode(n, pt) IN
        [n EXCEPT !.nodes = Some([SubNodes(n) EXCEPT ![sub_node_idx + 1] =
                                      LibNodeInsert(SubNodeAt(n, sub_node_idx), pt)])]
    ELSE IF Len(n.children) >= n.max_children /\ ~(n.depth >= n.max_depth) THEN
        LET children == Append(n.children, pt)
            sub == [LibSubdivide(n) EXCEPT !.children = <<>>]
        IN LibReinsert(sub, children, 1)
    ELSE [n EXCEPT !.children = Append(@, pt)]

(* QuadTree::insert: the root and the size after the call *)
LibTreeInsert(r, s, pt) ==
    IF LibInBounds(pt, r.bounds)
    THEN [root |-> LibNodeInsert(r, pt), size |-> s + 1]
    ELSE [root |-> r, size |-> s]

-----------------------------------------------------------------------------
(* retrieve: the sequence of data the returned DatumIter yields *)

RECURSIVE PointNodeRetrieve(_, _)
PointNodeRetrieveAll(n, datum) == Descendants(n)
PointNodeRetrieve(n, datum) ==
    IF HasNodes(n) THEN
        LET sn == FindSubNode(n.bounds, PointDatumPosition(datum)) IN
        IF IsSome(sn) THEN PointNodeRetrieve(SubNodeAt(n, Unwrap(sn)), datum)
        ELSE <<>>
    ELSE Children(n)

(* Descendants of the sub-nodes, from index i on, that intersect bbox *)
RECURSIVE OverlappingDescendants(_, _, _)
OverlappingDescendants(nodes, bbox, i) ==
    IF i > Len(nodes) THEN <<>>
    ELSE (IF Intersects(nodes[i].bounds, bbox) THEN Descendants(nodes[i]) ELSE <<>>)
         \o OverlappingDescendants(nodes, bbox, i + 1)

RECURSIVE BoundsNodeRetrieve(_, _)
BoundsNodeRetrieveChildrenLast(n, datum) ==
    LET sn == FindSubNode(n.bounds, BoundsDatumPosition(datum))
        bb == BoundingRect(datum)
        descendants ==
            IF HasNodes(n) /\ IsSome(sn) /\ IsSome(bb) THEN
                LET sub_node == SubNodeAt(n, Unwrap(sn)) IN
                IF rect_in_rect(sub_node.bounds, Unwrap(bb))
                THEN BoundsNodeRetrieve(sub_node, datum)
                ELSE OverlappingDescendants(SubNodes(n), Unwrap(bb), 1)
            ELSE <<>>
    IN descendants \o Children(n)
BoundsNodeRetrieve(n, datum) ==
    LET sn == FindSubNode(n.bounds, BoundsDatumPosition(datum))
        bb == BoundingRect(datum)
        descendants ==
            IF HasNodes(n) /\ IsSome(sn) /\ IsSome(bb) THEN
                LET sub_node == SubNodeAt(n, Unwrap(sn)) IN
                IF rect_in_rect(sub_node.bounds, Unwrap(bb))
                THEN BoundsNodeRetrieve(sub_node, datum)
                ELSE OverlappingDescendants(SubNodes(n), Unwrap(bb), 1)
            ELSE <<>>
    IN Children(n) \o descendants

PointTreeRetrieve(r, pt) ==
    IF pt_in_rect(r.bounds, AsPoint(pt)) THEN PointNodeRetrieve(r, pt) ELSE <<>>

BoundsTreeRetrieve(r, datum) ==
    LET bb == BoundingRect(datum) IN
    IF IsSome(bb)
    THEN IF rect_in_rect(r.bounds, Unwrap(bb)) THEN BoundsNodeRetrieve(r, datum) ELSE <<>>
    ELSE <<>>

-----------------------------------------------------------------------------
(* PointQuadTree / BoundsQuadTree: insert *)

(* The tree as insert leaves it: root, size and the returned Result *)
TreeResult(r, s, err) == [root |-> r, size |-> s, err |-> err]

PointTreeInsert(r, s, pt) ==
    IF pt_in_rect(r.bounds, AsPoint(pt))
    THEN LET res == PointNodeInsert(r, pt) IN
         IF res.err # Ok THEN TreeResult(res.node, s, res.err)
         ELSE TreeResult(res.node, s + 1, Ok)
    ELSE TreeResult(r, s, OutOfBounds)

BoundsTreeInsertCheckAfter(r, s, datum) ==
    LET db == BoundingRect(datum) IN
    IF ~IsSome(db) THEN TreeResult(r, s, CannotMakeBbox)
    ELSE LET res == BoundsNodeInsert(r, datum) IN
         IF res.err # Ok THEN TreeResult(res.node, s, res.err)
         ELSE IF rect_in_rect(r.bounds, Unwrap(db))
         THEN TreeResult(res.node, s + 1, Ok)
         ELSE TreeResult(res.node, s, OutOfBounds)
BoundsTreeInsert(r, s, datum) ==
    LET db == BoundingRect(datum) IN
    IF ~IsSome(db) THEN TreeResult(r, s, CannotMakeBbox)
    ELSE IF rect_in_rect(r.bounds, Unwrap(db))
    THEN LET res == BoundsNodeInsert(r, datum) IN
         IF res.err # Ok THEN TreeResult(res.node, s, res.err)
         ELSE TreeResult(res.node, s + 1, Ok)
    ELSE TreeResult(r, s, OutOfBounds)

-----------------------------------------------------------------------------
(* Distances (squared), for a comparator that is a point *)

(* T::from(f64::INFINITY): above every distance of the model *)
Infinity == 1000000

Sq(a) == a * a

dist_sq_pt_pt(p, p1) == Sq(p.x - p1.x) + Sq(p.y - p1.y)

(* The projection onto the segment is computed with param = dot / len_sq;  *)
(* for the axis-parallel segments of a rectangle param * c and param * d   *)
(* are the integers (dot * c) / len_sq and (dot * d) / len_sq.             *)
dist_sq_pt_line(p, p1, p2) ==
    LET a == p.x - p1.x
        b == p.y - p1.y
        c == p2.x - p1.x
        d == p2.y - p1.y
        dot == a * c + b * d
        len_sq == c * c + d * d
        paramNeg == len_sq = 0 \/ dot < 0
        paramAboveOne == len_sq # 0 /\ dot > len_sq
        xx == IF paramNeg THEN p1.x
              ELSE IF paramAboveOne THEN p2.x
              ELSE p1.x + (dot * c) \div len_sq
        yy == IF paramNeg THEN p1.y
              ELSE IF paramAboveOne THEN p2.y
              ELSE p1.y + (dot * d) \div len_sq
    IN Sq(p.x - xx) + Sq(p.y - yy)

(* Bounds::points / Bounds::segments: [top, right, bottom, left] *)
Segments(b) ==
    LET tl == [x |-> b.x1, y |-> b.y1]
        tr == [x |-> b.x2, y |-> b.y1]
        br == [x |-> b.x2, y |-> b.y2]
        bl == [x |-> b.x1, y |-> b.y2]
    IN <<<<tl, tr>>, <<tr, br>>, <<br, bl>>, <<bl, tl>>>>

(* Distance from the point cmp to the rectangle b *)
DistBbox(cmp, b) ==
    LET seg == Segments(b)
        top == seg[1]
        right == seg[2]
        bottom == seg[3]
        left == seg[4]
    IN IF cmp.x < b.x1 THEN dist_sq_pt_line(cmp, left[1], left[2])
       ELSE IF cmp.x > b.x2 THEN dist_sq_pt_line(cmp, right[1], right[2])
       ELSE IF cmp.y < b.y1 THEN dist_sq_pt_line(cmp, top[1], top[2])
       ELSE IF cmp.y > b.y2 THEN dist_sq_pt_line(cmp, bottom[1], bottom[2])
       ELSE 0

(* Distance from the point cmp to the geometry of a stored datum: to a     *)
(* Point the point-point distance, to a Rect the distance to the polygon   *)
(* of the rectangle (zero inside and on its boundary).                     *)
DistGeom(cmp, datum) ==
    IF datum.kind = "Point" THEN dist_sq_pt_pt(cmp, AsPoint(datum))
    ELSE DistBbox(cmp, Rect(datum.x1, datum.y1, datum.x2, datum.y2))

-----------------------------------------------------------------------------
(* find_r (src/quadtrees/point/mod.rs, src/quadtrees/bounds/mod.rs) *)

FindResult(err, item, d) == [err |-> err, item |-> item, d |-> d]

(* The running minimum: min_dist and min_item (None for Err(NoneInRadius)) *)
Best(min_dist, min_item) == [min_dist |-> min_dist, min_item |-> min_item]

RECURSIVE PointScanChildren(_, _, _, _)
PointScanChildren(cmp, children, i, best) ==
    IF i > Len(children) THEN best
    ELSE LET child_dist == DistGeom(cmp, children[i]) IN
         IF child_dist <= best.min_dist
         THEN PointScanChildren(cmp, children, i + 1, Best(child_dist, Some(children[i])))
         ELSE PointScanChildren(cmp, children, i + 1, best)

(* Push nodes onto the stack in reverse order: the top is the last element *)
PushSubNodesOffByOne(stack, node) ==
    IF HasNodes(node)
    THEN stack \o <<SubNodeAt(node, 3), SubNodeAt(node, 2), SubNodeAt(node, 1)>>
    ELSE stack
PushSubNodes(stack, node) ==
    IF HasNodes(node)
    THEN stack \o <<SubNodeAt(node, 3), SubNodeAt(node, 2), SubNodeAt(node, 1), SubNodeAt(node, 0)>>
    ELSE stack

Pop(stack) == SubSeq(stack, 1, Len(stack) - 1)
Top(stack) == stack[Len(stack)]

RECURSIVE PointFindLoop(_, _, _)
PointFindLoop(cmp, stack, best) ==
    IF stack = <<>> THEN best
    ELSE LET node == Top(stack)
             bounds_dist == DistBbox(cmp, node.bounds)
         IN IF bounds_dist >= best.min_dist
            THEN PointFindLoop(cmp, Pop(stack), best)
            ELSE PointFindLoop(cmp, PushSubNodes(Pop(stack), node),
                               PointScanChildren(cmp, Children(node), 1, best))

FinishFind(best) ==
    IF IsSome(best.min_item)
    THEN FindResult(Ok, Unwrap(best.min_item), best.min_dist)
    ELSE FindResult(NoneInRadius, NoDatum, 0)

PointFindREmptyFirst(r, s, cmp, radius) ==
    IF s = 0 THEN FindResult(Empty, NoDatum, 0)
    ELSE IF DistBbox(cmp, r.bounds) # 0 THEN FindResult(OutOfBounds, NoDatum, 0)
    ELSE FinishFind(PointFindLoop(cmp, <<r>>, Best(radius, None)))
PointFindR(r, s, cmp, radius) ==
    IF DistBbox(cmp, r.bounds) # 0 THEN FindResult(OutOfBounds, NoDatum, 0)
    ELSE IF s = 0 THEN FindResult(Empty, NoDatum, 0)
    ELSE FinishFind(PointFindLoop(cmp, <<r>>, Best(radius, None)))

RECURSIVE BoundsScanChildren(_, _, _, _)
BoundsScanChildren(cmp, children, i, best) ==
    IF i > Len(children) THEN best
    ELSE LET bbox == Unwrap(BoundingRect(children[i]))
             child_dist == DistGeom(cmp, children[i])
         IN IF DistBbox(cmp, bbox) > best.min_dist
            THEN BoundsScanChildren(cmp, children, i + 1, best)
            ELSE IF child_dist <= best.min_dist
            THEN BoundsScanChildren(cmp, children, i + 1, Best(child_dist, Some(children[i])))
            ELSE BoundsScanChildren(cmp, children, i + 1, best)

RECURSIVE BoundsFindLoop(_, _, _)
BoundsFindLoop(cmp, stack, best) ==
    IF stack = <<>> THEN best
    ELSE LET node == Top(stack)
             bounds_dist == DistBbox(cmp, node.bounds)
         IN IF bounds_dist >= best.min_dist
            THEN BoundsFindLoop(cmp, Pop(stack), best)
            ELSE BoundsFindLoop(cmp, PushSubNodes(Pop(stack), node),
                                BoundsScanChildren(cmp, Children(node), 1, best))

BoundsFindR(r, s, cmp, radius) ==
    IF DistBbox(cmp, r.bounds) # 0 THEN FindResult(OutOfBounds, NoDatum, 0)
    ELSE IF s = 0 THEN FindResult(Empty, NoDatum, 0)
    ELSE FinishFind(BoundsFindLoop(cmp, <<r>>, Best(radius, None)))

-----------------------------------------------------------------------------
(* knn (src/quadtrees/knn.rs) *)

(* Elements of a sequence, and the number of occurrences of one *)
Range(seq) == {seq[i] : i \in 1..Len(seq)}
Count(seq, d) == Cardinality({i \in 1..Len(seq) : seq[i] = d})

NoNode == NewNode(Rect(0, 0, 0, 0), 0, 0, 0)

(* NodeType / KnnType with its distance: (Node(node), d) and (Child(datum), d) *)
NodeItem(node, d) == [isNode |-> TRUE, node |-> node, datum |-> NoDatum, d |-> d]
ChildItem(datum, d) == [isNode |-> FALSE, node |-> NoNode, datum |-> datum, d |-> d]

(* The items a visited node adds to a work stack *)
ChildItems(cmp, node) ==
    LET children == Children(node) IN
    [i \in 1..Len(children) |-> ChildItem(children[i], DistGeom(cmp, children[i]))]

SubNodeItemsSkipFirst(cmp, node) ==
    IF HasNodes(node)
    THEN [i \in 1..3 |-> NodeItem(SubNodes(node)[i + 1], DistBbox(cmp, SubNodes(node)[i + 1].bounds))]
    ELSE <<>>
SubNodeItems(cmp, node) ==
    IF HasNodes(node)
    THEN [i \in 1..4 |-> NodeItem(SubNodes(node)[i], DistBbox(cmp, SubNodes(node)[i].bounds))]
    ELSE <<>>

MaxDistOf(S) == CHOOSE m \in {i.d : i \in S} : \A i \in S : m >= i.d
MinDist(S) == CHOOSE m \in {i.d : i \in S} : \A i \in S : m <= i.d

(* The loop of knn.  The work stack is sorted again before every visit of a *)
(* node and sort_unstable_by fixes no order among equal distances, so the   *)
(* stack is its set of items and its top is any item of the least           *)
(* distance.  The value is the set of vectors the loop can return.          *)
RECURSIVE KnnLoop(_, _, _, _, _)
KnnLoop(work_stack, results, cmp, k, r) ==
    IF work_stack = {} THEN {results}
    ELSE LET least == MinDist(work_stack) IN
         UNION {
            IF top.d > r THEN {results}
            ELSE IF top.isNode
            THEN KnnLoop((work_stack \ {top})
                            \cup Range(ChildItems(cmp, top.node))
                            \cup Range(SubNodeItems(cmp, top.node)),
                         results, cmp, k, r)
            ELSE LET pushed == Append(results, <<top.datum, top.d>>) IN
                 IF Len(pushed) >= k THEN {pushed}
                 ELSE KnnLoop(work_stack \ {top}, pushed, cmp, k, r)
            : top \in {i \in work_stack : i.d = least}}

KnnResult(err, out) == [err |-> err, out |-> out]

KnnNoBoundsCheck(r, cmp, k, radius) ==
    {KnnResult(Ok, out) :
        out \in KnnLoop({NodeItem(r, DistBbox(cmp, r.bounds))}, <<>>, cmp, k, radius)}
Knn(r, cmp, k, radius) ==
    IF DistBbox(cmp, r.bounds) # 0 THEN {KnnResult(OutOfBounds, <<>>)}
    ELSE {KnnResult(Ok, out) :
            out \in KnnLoop({NodeItem(r, DistBbox(cmp, r.bounds))}, <<>>, cmp, k, radius)}

-----------------------------------------------------------------------------
(* sorted / SortIter (src/quadtrees/sorted.rs) *)

RemoveAt(seq, i) == SubSeq(seq, 1, i - 1) \o SubSeq(seq, i + 1, Len(seq))

(* sort_unstable_by in distance-descending order.  The sort fixes no order *)
(* among equal distances, so any item of the least distance can end on top *)
(* (the last position).  is_sorted is FALSE whenever the stack is not      *)
(* empty, so the stack is sorted again before every pop and only the top   *)
(* of the sorted stack is ever read: the items below it keep their order   *)
(* here.                                                                   *)
SortNot(stack) == {stack}
SortDescending(stack) ==
    {RemoveAt(stack, i) \o <<stack[i]>> :
        i \in {j \in 1..Len(stack) : \A l \in 1..Len(stack) : stack[j].d <= stack[l].d}}
    \cup (IF stack = <<>> THEN {<<>>} ELSE {})

(* Items with a finite distance are pushed, the others are skipped *)
FiniteItems(items) == SelectSeq(items, LAMBDA it : it.d < Infinity)

SortIter(stack, is_sorted) == [stack |-> stack, is_sorted |-> is_sorted]

(* SortIter::next: the set of (iterator after the call, item returned) *)
RECURSIVE SortIterNext(_, _)
SortIterNext(self, cmp) ==
    UNION {
        IF stack = <<>> THEN {[self |-> SortIter(stack, self.is_sorted), item |-> None]}
        ELSE LET top == Top(stack) IN
             IF ~top.isNode
             THEN {[self |-> SortIter(Pop(stack), self.is_sorted),
                    item |-> Some(<<top.datum, top.d>>)]}
             ELSE SortIterNext(
                    SortIter(Pop(stack) \o FiniteItems(ChildItems(cmp, top.node))
                                        \o FiniteItems(SubNodeItems(cmp, top.node)),
                             FALSE),
                    cmp)
        : stack \in IF self.is_sorted THEN {self.stack} ELSE SortDescending(self.stack)}

Sorted(r, cmp) ==
    IF DistBbox(cmp, r.bounds) = 0
    THEN SortIter(<<NodeItem(r, 0)>>, FALSE)
    ELSE SortIter(<<>>, TRUE)

-----------------------------------------------------------------------------
(* Euclidean rectangle-rectangle distance (src/geom/euclidean/mod.rs) *)

(* A distance +sqrt(sq) or -sqrt(sq): Lin(v) is the number v, Root(s) is   *)
(* the square root of s, so that two distances are equal numbers exactly   *)
(* when the records are equal.                                             *)
Lin(v) == [neg |-> v < 0, sq |-> v * v]
Root(s) == [neg |-> FALSE, sq |-> s]

(* f64::min *)
MinOf(a, b) == IF a < b THEN a ELSE b
MaxOf(a, b) == IF a > b THEN a ELSE b

(* Bounds::x_min, y_min, x_max, y_max on a rectangle [x1, y1, x2, y2] *)
dist_bounds_bounds(b1, b2) ==
    LET overlap_x == b1.x2 >= b2.x1 /\ b2.x2 >= b1.y1
        overlap_y == b1.y2 >= b2.y1 /\ b2.y2 >= b1.y1
    IN IF overlap_x /\ overlap_y THEN Lin(0)
       ELSE IF overlap_x THEN Lin(MinOf(b1.y1 - b2.y2, b2.y1 - b1.y2))
       ELSE IF overlap_y THEN Lin(MinOf(b1.x1 - b2.x2, b2.x1 - b1.x2))
       ELSE LET xs == IF b1.x2 < b2.x1 THEN <<b1.x2, b2.x1>> ELSE <<b1.x1, b2.x2>>
                ys == IF b1.y2 < b2.y1 THEN <<b1.y2, b2.y1>> ELSE <<b1.y1, b2.y2>>
            IN Root(dist_sq_pt_pt([x |-> xs[1], y |-> ys[1]], [x |-> xs[2], y |-> ys[2]]))

-----------------------------------------------------------------------------
(* Haversine dispatch over the geometry kinds (src/geom/spherical/dist.rs) *)

Kinds == {"Point", "Line", "LineString", "Polygon", "Rect"}

(* A geometry of the dispatch: its kind, whether it is the owned Geometry  *)
(* or the borrowed GeometryRef, and its identity                           *)
Geom(kind, owned, id) == [kind |-> kind, owned |-> owned, id |-> id]

DistOk(v) == [err |-> Ok, val |-> v]
DistErr(e) == [err |-> e, val |-> <<>>]
InvalidDistance == "InvalidDistance"
UnsupportedGeometry == "UnsupportedGeometry"

(* A call of one of the functions of spherical/math.rs.  The functions of  *)
(* two points and of two rectangles are taken as symmetric in their        *)
(* arguments; the others take the point first.                             *)
MathCall(fn, a, b) ==
    IF fn \in {"dist_pt_pt", "dist_rect_rect"}
    THEN <<fn, MinOf(a.id, b.id), MaxOf(a.id, b.id)>>
    ELSE <<fn, a.id, b.id>>

(* impl DistHaversine<T, GeometryRef> for Point, Line, LineString,         *)
(* Polygon, Rect: self has kind a.kind, rhs is matched on its kind         *)
TypedDistHaversine(a, rhs) ==
    CASE a.kind = "Point" ->
            (CASE rhs.kind = "Point" -> DistOk(MathCall("dist_pt_pt", a, rhs))
               [] rhs.kind = "Line" -> DistOk(MathCall("dist_pt_line", a, rhs))
               [] rhs.kind = "LineString" -> DistOk(MathCall("dist_pt_linestring", a, rhs))
               [] rhs.kind = "Polygon" -> DistOk(MathCall("dist_pt_poly", a, rhs))
               [] rhs.kind = "Rect" -> DistOk(MathCall("dist_pt_rect", a, rhs)))
      [] a.kind = "Line" ->
            IF rhs.kind = "Point" THEN DistOk(MathCall("dist_pt_line", rhs, a))
            ELSE DistErr(InvalidDistance)
      [] a.kind = "LineString" -> DistErr(InvalidDistance)
      [] a.kind = "Polygon" ->
            IF rhs.kind = "Point" THEN DistOk(MathCall("dist_pt_poly", rhs, a))
            ELSE DistErr(InvalidDistance)
      [] a.kind = "Rect" ->
            (CASE rhs.kind = "Point" -> DistOk(MathCall("dist_pt_rect", rhs, a))
               [] rhs.kind = "Rect" -> DistOk(MathCall("dist_rect_rect", a, rhs))
               [] OTHER -> DistErr(InvalidDistance))

(* Geometry::as_geom: the borrowed form of an owned geometry *)
as_geom(g) == [g EXCEPT !.owned = FALSE]

(* The four impls for the enums.  GeometryRef with a GeometryRef rhs        *)
(* matches on self and calls the typed impl; a Geometry rhs is borrowed    *)
(* with as_geom; Geometry with a GeometryRef rhs calls                     *)
(* rhs.dist_haversine(self).                                               *)
RECURSIVE DistHaversine(_, _)
DistHaversine(a, rhs) ==
    CASE rhs.owned -> DistHaversine(a, as_geom(rhs))
      [] a.owned /\ ~rhs.owned -> DistHaversine(rhs, a)
      [] OTHER -> TypedDistHaversine(a, rhs)

-----------------------------------------------------------------------------
(* Inputs *)

Pt(x, y) == [x |-> x, y |-> y]

(* Values offered to PointQuadTree::insert: a leaf interior, the root      *)
(* midpoint (a tie on both midlines), another quadrant, the far corner of  *)
(* the root rectangle, and a point outside it.                             *)
PointValues == {Pt(2, 2), Pt(16, 16), Pt(20, 6), Pt(RootMax, RootMax), Pt(RootMax + 2, 2)}

(* Values offered to BoundsQuadTree::insert: rectangles inside one         *)
(* sub-node, straddling a midline at depth 1 and at depth 0, touching the  *)
(* root midlines from the bottom-right, one leaving the root rectangle,    *)
(* and the geometry without a bounding rectangle.                          *)
BoundsValues ==
    {Datum(0, "Rect", 2, 2, 4, 4), Datum(0, "Rect", 6, 6, 10, 10),
     Datum(0, "Rect", 14, 14, 18, 18), Datum(0, "Rect", 16, 16, 20, 20),
     Datum(0, "Rect", RootMax - 2, RootMax - 2, RootMax + 2, RootMax + 2),
     Datum(0, "LineString", 0, 0, 0, 0)}

(* Values offered to the insert of src/lib.rs: those of the point tree    *)
(* and a point below the root rectangle                                    *)
LibValues == PointValues \cup {Pt(2, RootMax + 8)}

(* Values offered to insert on the deepest trees: a point inserted again   *)
(* and again, a point of another quadrant, a point outside; the bounding   *)
(* rectangle of a Point geometry (no sub-node ever fails to contain it), a *)
(* rectangle straddling the root midlines, a rectangle leaving the root.   *)
DeepPointValues == {Pt(2, 2), Pt(20, 6), Pt(RootMax + 2, 2)}

DeepBoundsValues ==
    {Datum(0, "Rect", 2, 2, 2, 2), Datum(0, "Rect", 14, 14, 18, 18),
     Datum(0, "Rect", RootMax - 2, RootMax - 2, RootMax + 2, RootMax + 2)}

(* Inserts made on the deepest trees *)
MaxDeepInserts == 2

Last(op, q, k, r, err, out) ==
    [op |-> op, q |-> q, k |-> k, r |-> r, err |-> err, out |-> out]

(* Queries offered to retrieve.  Point tree: the inserted values.  Bounds  *)
(* tree: a rectangle inside the top-left quadrant that touches the root    *)
(* midpoint, a rectangle inside one leaf, one straddling the root          *)
(* midlines, one leaving the root rectangle, and the empty LineString.     *)
PointQueries == {Datum(0, "Point", v.x, v.y, v.x, v.y) : v \in PointValues}

BoundsQueries ==
    {Datum(0, "Rect", 12, 12, 16, 16), Datum(0, "Rect", 2, 2, 4, 4),
     Datum(0, "Rect", 14, 14, 18, 18),
     Datum(0, "Rect", RootMax - 2, RootMax - 2, RootMax + 2, RootMax + 2),
     Datum(0, "LineString", 0, 0, 0, 0)}

(* Comparators of the searches: a corner of the root rectangle, a point    *)
(* next to the root midpoint, a point of the top-right quadrant, and a     *)
(* point outside the root rectangle.                                       *)
Comparators == {Pt(0, 0), Pt(17, 17), Pt(30, 2), Pt(RootMax + 8, 16)}

(* Radii (squared): zero, the distance from (17,17) to (16,16), a radius   *)
(* that reaches a part of the tree, and the unbounded radius of find / knn *)
Radii == {0, 2, 200, Infinity}

(* Rectangles offered to dist_bounds_bounds: corners on the grid           *)
(* 0..MaxCoord, positive width and height                                  *)
MaxCoord == 3

GridRects ==
    {Rect(x1, y1, x2, y2) : x1 \in 0..MaxCoord, y1 \in 0..MaxCoord,
                            x2 \in 0..MaxCoord, y2 \in 0..MaxCoord}
    \cap {b \in [x1 : 0..MaxCoord, y1 : 0..MaxCoord, x2 : 0..MaxCoord, y2 : 0..MaxCoord] :
            b.x1 < b.x2 /\ b.y1 < b.y2}

(* Values of k offered to knn_r *)
MaxK == 2

(* iter: the SortIter alive in the caller (self), its comparator, the      *)
(* items it has returned so far and whether next has returned None         *)
IterState(active, cmp, self, out, done) ==
    [active |-> active, cmp |-> cmp, self |-> self, out |-> out, done |-> done]

NoIter == IterState(FALSE, Pt(0, 0), SortIter(<<>>, TRUE), <<>>, FALSE)

-----------------------------------------------------------------------------
(* The state machine *)

(* PointQuadTree::new / BoundsQuadTree::new *)
Init ==
    /\ variant \in {"point", "bounds"}
    /\ \E max_depth \in 0..MaxDepth, max_children \in 0..MaxChildren :
           root = NewNode(Rect(0, 0, RootMax, RootMax), 0, max_depth, max_children)
    /\ size = 0
    /\ nextId = 0
    /\ stored = <<>>
    /\ last = Last("new", NoDatum, 0, 0, Ok, <<>>)
    /\ iter = NoIter
    /\ arena = <<>>
    /\ calls = <<>>

(* The caller makes one call at a time.  The Result of a search and the    *)
(* iterators borrow the tree (they hold &D), so the caller releases them   *)
(* before the next call: insert takes &mut self.                           *)
Idle == last.op \in {"new", "insert", "released"} /\ ~iter.active

(* PointQuadTree::insert(pt); the datum carries the number of the call as  *)
(* its id, so that equal points are distinct data.  stored records the     *)
(* data whose insert returned Ok, in call order.                           *)
PointInsert(v) ==
    /\ variant = "point"
    /\ Idle
    /\ nextId < MaxInserts
    /\ LET pt == Datum(nextId + 1, "Point", v.x, v.y, v.x, v.y)
           res == PointTreeInsert(root, size, pt)
       IN /\ root' = res.root
          /\ size' = res.size
          /\ stored' = IF res.err = Ok THEN Append(stored, pt) ELSE stored
          /\ last' = Last("insert", pt, 0, 0, res.err, <<>>)
    /\ nextId' = nextId + 1
    /\ UNCHANGED <<arena, calls, variant, iter>>

(* BoundsQuadTree::insert(datum) *)
BoundsInsert(v) ==
    /\ variant = "bounds"
    /\ Idle
    /\ nextId < MaxInserts
    /\ LET datum == [v EXCEPT !.id = nextId + 1]
           res == BoundsTreeInsert(root, size, datum)
       IN /\ root' = res.root
          /\ size' = res.size
          /\ stored' = IF res.err = Ok THEN Append(stored, datum) ELSE stored
          /\ last' = Last("insert", datum, 0, 0, res.err, <<>>)
    /\ nextId' = nextId + 1
    /\ UNCHANGED <<arena, calls, variant, iter>>

Insert ==
    \/ \E v \in PointValues : PointInsert(v)
    \/ \E v \in BoundsValues : BoundsInsert(v)

(* QuadTreeSearch::find_r(cmp, r); find(cmp) is find_r(cmp, Infinity) *)
FindR(cmp, r) ==
    /\ Idle
    /\ LET res == IF variant = "point" THEN PointFindR(root, size, cmp, r)
                  ELSE BoundsFindR(root, size, cmp, r)
       IN last' = Last("find_r", cmp, 0, r, res.err,
                       IF res.err = Ok THEN <<<<res.item, res.d>>>> ELSE <<>>)
    /\ UNCHANGED <<arena, calls, variant, root, size, nextId, stored, iter>>

Find == \E cmp \in Comparators, r \in Radii : FindR(cmp, r)

(* QuadTree::retrieve(datum), collected *)
RetrieveOf(q) ==
    /\ Idle
    /\ last' = Last("retrieve", q, 0, 0, Ok,
                    IF variant = "point" THEN PointTreeRetrieve(root, q)
                    ELSE BoundsTreeRetrieve(root, q))
    /\ UNCHANGED <<arena, calls, variant, root, size, nextId, stored, iter>>

Retrieve ==
    \/ \E q \in PointQueries : variant = "point" /\ RetrieveOf(q)
    \/ \E q \in BoundsQueries : variant = "bounds" /\ RetrieveOf(q)

(* QuadTreeSearch::knn_r(cmp, k, r) *)
KnnR(cmp, k, r) ==
    /\ Idle
    /\ \E res \in Knn(root, cmp, k, r) : last' = Last("knn_r", cmp, k, r, res.err, res.out)
    /\ UNCHANGED <<arena, calls, variant, root, size, nextId, stored, iter>>

KnnSearch == \E cmp \in Comparators, k \in 0..MaxK, r \in Radii : KnnR(cmp, k, r)

(* QuadTreeSearch::sorted(cmp): the iterator is created *)
SortedStart ==
    \E cmp \in Comparators :
        /\ Idle
        /\ iter' = IterState(TRUE, cmp, Sorted(root, cmp), <<>>, FALSE)
        /\ last' = Last("sorted", cmp, 0, 0, Ok, <<>>)
        /\ UNCHANGED <<arena, calls, variant, root, size, nextId, stored>>

(* One call of next on the live iterator *)
SortedNext ==
    /\ iter.active
    /\ \E o \in SortIterNext(iter.self, iter.cmp) :
          iter' = IterState(TRUE, iter.cmp, o.self,
                            IF IsSome(o.item) THEN Append(iter.out, Unwrap(o.item))
                            ELSE iter.out,
                            ~IsSome(o.item))
    /\ UNCHANGED <<arena, calls, variant, root, size, nextId, stored, last>>

(* (&tree).into_iter(), collected: the descendants of the root.  The tree *)
(* is borrowed shared, so it can be iterated again while the first         *)
(* sequence is still held.                                                 *)
Iterate ==
    /\ Idle \/ (last.op = "iter" /\ ~iter.active)
    /\ last' = Last("iter", NoDatum, 0, 0, Ok, Descendants(root))
    /\ UNCHANGED <<arena, calls, variant, root, size, nextId, stored, iter>>

(* Euclidean::dist_bounds_bounds, called on a pair of rectangles in both   *)
(* orders                                                                  *)
DistBoundsBounds ==
    \E b1, b2 \in GridRects :
        /\ variant = "geom" /\ Idle
        /\ last' = Last("dist_bounds_bounds", <<b1, b2>>, 0, 0, Ok,
                        <<DistOk(dist_bounds_bounds(b1, b2)),
                          DistOk(dist_bounds_bounds(b2, b1))>>)
        /\ UNCHANGED <<arena, calls, variant, root, size, nextId, stored, iter>>

(* dist_haversine, called on a pair of geometries in both orders *)
DistHaversinePair ==
    \E k1, k2 \in Kinds, o1, o2 \in BOOLEAN :
        LET a == Geom(k1, o1, 1)
            b == Geom(k2, o2, 2)
        IN /\ variant = "geom" /\ Idle
           /\ last' = Last("dist_haversine", <<a, b>>, 0, 0, Ok,
                           <<DistHaversine(a, b), DistHaversine(b, a)>>)
           /\ UNCHANGED <<arena, calls, variant, root, size, nextId, stored, iter>>

(* Node::insert called on the root node itself, as the tree's insert and  *)
(* the re-insert loop call it: no bounds check, no bbox check and no size  *)
(* update come before it.  The data offered lie in the node's bounds or    *)
(* have no bounding rectangle.                                             *)
NodeInsert ==
    /\ Idle
    /\ nextId < MaxInserts
    /\ \E v \in (IF variant = "point"
                  THEN {Datum(0, "Point", p.x, p.y, p.x, p.y) : p \in PointValues}
                  ELSE BoundsValues) :
           LET datum == [v EXCEPT !.id = nextId + 1]
               res == IF variant = "point" THEN PointNodeInsert(root, datum)
                      ELSE BoundsNodeInsert(root, datum)
           IN /\ (v.kind = "LineString" \/ rect_in_rect(root.bounds, v))
              /\ root' = res.node
              /\ stored' = IF res.err = Ok THEN Append(stored, datum) ELSE stored
              /\ last' = Last("node_insert", datum, 0, 0, res.err, <<>>)
    /\ nextId' = nextId + 1
    /\ UNCHANGED <<arena, calls, variant, size, iter>>

(* insert of the earlier BoundsNode, called on the root node with a datum  *)
(* whose bounds lie in the root rectangle                                  *)
DraftBoundsInsert ==
    /\ variant = "draft_bounds"
    /\ nextId < MaxInserts
    /\ \E v \in BoundsValues :
           LET datum == [v EXCEPT !.id = nextId + 1] IN
           /\ v.kind = "Rect" /\ rect_in_rect(root.bounds, v)
           /\ root' = DraftBoundsNodeInsert(root, datum)
           /\ stored' = Append(stored, datum)
           /\ last' = Last("insert", datum, 0, 0, Ok, <<>>)
    /\ size' = size + 1
    /\ nextId' = nextId + 1
    /\ UNCHANGED <<arena, calls, variant, iter>>

(* QuadTree::insert of src/lib.rs *)
LibInsert ==
    /\ variant = "lib"
    /\ nextId < MaxInserts
    /\ \E v \in LibValues :
           LET pt == Datum(nextId + 1, "Point", v.x, v.y, v.x, v.y)
               res == LibTreeInsert(root, size, pt)
           IN /\ root' = res.root
              /\ size' = res.size
              /\ stored' = IF res.size # size THEN Append(stored, pt) ELSE stored
              /\ last' = Last("insert", pt, 0, 0, Ok, <<>>)
    /\ nextId' = nextId + 1
    /\ UNCHANGED <<arena, calls, variant, iter>>

(* PointQuadTree::insert / BoundsQuadTree::insert up to the call of        *)
(* self.root.insert(datum)                                                 *)
DeepInsertCall ==
    /\ calls = <<>>
    /\ nextId < MaxDeepInserts
    /\ \E v \in (IF variant = "point"
                  THEN {Datum(0, "Point", p.x, p.y, p.x, p.y) : p \in DeepPointValues}
                  ELSE DeepBoundsValues) :
           LET datum == [v EXCEPT !.id = nextId + 1]
               db == BoundingRect(datum)
               err == IF variant = "point"
                      THEN IF pt_in_rect(arena[1].bounds, AsPoint(datum))
                           THEN Ok ELSE OutOfBounds
                      ELSE IF ~IsSome(db) THEN CannotMakeBbox
                           ELSE IF rect_in_rect(arena[1].bounds, Unwrap(db))
                           THEN Ok ELSE OutOfBounds
           IN IF err = Ok
              THEN /\ calls' = <<Call(1, datum)>>
                   /\ last' = Last("inserting", datum, 0, 0, Ok, <<>>)
              ELSE /\ calls' = <<>>
                   /\ last' = Last("insert", datum, 0, 0, err, <<>>)
    /\ nextId' = nextId + 1
    /\ UNCHANGED <<variant, root, size, stored, iter, arena>>

(* The running call of Node::insert goes on to its next call or returns;   *)
(* when the call on the root returns, insert counts the datum and returns  *)
(* Ok                                                                      *)
NodeInsertStep ==
    /\ calls # <<>>
    /\ LET res == NodeInsertCall(variant, arena, calls) IN
       /\ arena' = res.arena
       /\ calls' = res.calls
       /\ IF res.calls = <<>>
          THEN /\ size' = size + 1
               /\ stored' = Append(stored, last.q)
               /\ last' = [last EXCEPT !.op = "insert"]
          ELSE UNCHANGED <<size, stored, last>>
    /\ UNCHANGED <<variant, root, nextId, iter>>

(* The Result or iterator of the last search goes out of scope *)
Release ==
    /\ ~Idle
    /\ last' = Last("released", NoDatum, 0, 0, Ok, <<>>)
    /\ iter' = NoIter
    /\ UNCHANGED <<arena, calls, variant, root, size, nextId, stored>>

Next == Insert

Spec == Init /\ [][Next]_vars

(* The searches run on the trees that subdivide soonest and deepest *)
InitSearch ==
    /\ Init
    /\ root.max_depth = MaxDepth
    /\ root.max_children <= 1

NextFind == Insert \/ Find \/ Release

SpecFind == InitSearch /\ [][NextFind]_vars

NextRetrieve == Insert \/ Retrieve \/ Release

NextIter == Insert \/ Iterate \/ Release

(* The distance functions are pure: no tree is involved *)
InitDist ==
    /\ variant = "geom"
    /\ root = NoNode
    /\ size = 0
    /\ nextId = 0
    /\ stored = <<>>
    /\ last = Last("new", NoDatum, 0, 0, Ok, <<>>)
    /\ iter = NoIter
    /\ arena = <<>>
    /\ calls = <<>>

NextDist == DistBoundsBounds \/ DistHaversinePair \/ Release

SpecDist == InitDist /\ [][NextDist]_vars

SpecIter == Init /\ [][NextIter]_vars

InitDraftBounds ==
    /\ variant = "draft_bounds"
    /\ \E max_depth \in 0..MaxDepth, max_children \in 0..MaxChildren :
           root = NewNode(Rect(0, 0, RootMax, RootMax), 0, max_depth, max_children)
    /\ size = 0
    /\ nextId = 0
    /\ stored = <<>>
    /\ last = Last("new", NoDatum, 0, 0, Ok, <<>>)
    /\ iter = NoIter
    /\ arena = <<>>
    /\ calls = <<>>

NextDraftBounds == DraftBoundsInsert

SpecDraftBounds == InitDraftBounds /\ [][NextDraftBounds]_vars

(* QuadTree::new of src/lib.rs *)
InitLib ==
    /\ variant = "lib"
    /\ \E max_depth \in 0..MaxDepth, max_children \in 0..MaxChildren :
           root = LibNewNode(LibBounds(0, 0, RootMax, RootMax), 0, max_depth, max_children)
    /\ size = 0
    /\ nextId = 0
    /\ stored = <<>>
    /\ last = Last("new", NoDatum, 0, 0, Ok, <<>>)
    /\ iter = NoIter
    /\ arena = <<>>
    /\ calls = <<>>

NextLib == LibInsert

SpecLib == InitLib /\ [][NextLib]_vars

(* The trees with the largest max_depth a u8 holds, and the shallowest *)
InitDeep ==
    /\ variant \in {"point", "bounds"}
    /\ root = NoNode
    /\ \E max_depth \in {0, 1, U8Max}, max_children \in 0..MaxChildren :
           arena = <<NewNode(Rect(0, 0, RootMax, RootMax), 0, max_depth, max_children)>>
    /\ calls = <<>>
    /\ size = 0
    /\ nextId = 0
    /\ stored = <<>>
    /\ last = Last("new", NoDatum, 0, 0, Ok, <<>>)
    /\ iter = NoIter

NextDeep == DeepInsertCall \/ NodeInsertStep

(* The program is sequential: a call that is running goes on *)
SpecDeep == InitDeep /\ [][NextDeep]_vars /\ WF_vars(NodeInsertStep)

NextNode == Insert \/ NodeInsert

SpecNode == Init /\ [][NextNode]_vars

NextKnn == Insert \/ KnnSearch \/ Release

SpecKnn == InitSearch /\ [][NextKnn]_vars

NextSorted == Insert \/ SortedStart \/ SortedNext \/ Release

SpecSorted == InitSearch /\ [][NextSorted]_vars

SpecRetrieve == InitSearch /\ [][NextRetrieve]_vars

-----------------------------------------------------------------------------
(* Properties of the tree structure *)


(* Closed containment, stated on the coordinates *)
PointWithin(b, d) == b.x1 <= d.x1 /\ d.x1 <= b.x2 /\ b.y1 <= d.y1 /\ d.y1 <= b.y2
BoxWithin(b, d) == b.x1 <= d.x1 /\ d.x2 <= b.x2 /\ b.y1 <= d.y1 /\ d.y2 <= b.y2

(* Number of places (node, list, index) of the tree that hold d *)
Places ==
    {<<n, "children", i>> : n \in AllNodes(root), i \in 1..nextId} \cup
    {<<n, "stuck", i>> : n \in AllNodes(root), i \in 1..nextId}
HeldAt(h, d) ==
    LET seq == IF h[2] = "children" THEN h[1].children ELSE h[1].stuck_children
    IN h[3] <= Len(seq) /\ seq[h[3]] = d
TimesHeld(d) == Cardinality({h \in Places : HeldAt(h, d)})

(* C1: in both trees, after any sequence of successful and failing        *)
(* inserts, size() is the number of data the descendants of the root       *)
(* (the tree's IntoIterator) yield.                                        *)
C1_SizeIsDescendantCount == size = Len(Descendants(root))

C1_Witness ==
    /\ size = 2
    /\ nextId = 3
    /\ HasNodes(root)
    /\ last.err # Ok

(* C2: point tree: a subdivided node has no children of its own, and      *)
(* every stored datum is held exactly once, by a node without sub-nodes    *)
(* whose closed bounds contain the datum's point.                          *)
C2_PointLeafInvariant ==
    variant = "point" =>
        /\ \A n \in AllNodes(root) :
               /\ HasNodes(n) => n.children = <<>>
               /\ n.stuck_children = <<>>
               /\ \A i \in 1..Len(n.children) : PointWithin(n.bounds, n.children[i])
        /\ \A i \in 1..Len(stored) : TimesHeld(stored[i]) = 1

C2_Witness ==
    /\ variant = "point"
    /\ size = 3
    /\ HasNodes(root)
    /\ \E i \in 1..4 : HasNodes(SubNodes(root)[i])
    /\ \E i \in 1..3 : stored[i].x1 = 16 /\ stored[i].y1 = 16

(* The sub-node of n that the center of d's bbox selects *)
CenterSubNode(n, d) ==
    LET cx2 == d.x1 + d.x2
        cy2 == d.y1 + d.y2
        mx2 == n.bounds.x1 + n.bounds.x2
        my2 == n.bounds.y1 + n.bounds.y2
    IN IF cx2 <= mx2 /\ cy2 <= my2 THEN SubNodes(n)[1]
       ELSE IF cx2 > mx2 /\ cy2 <= my2 THEN SubNodes(n)[2]
       ELSE IF cx2 > mx2 /\ cy2 > my2 THEN SubNodes(n)[3]
       ELSE SubNodes(n)[4]

C10_InsertAtomic ==
    [][nextId' # nextId =>
          /\ last'.err # Ok => (root' = root /\ size' = size)
          /\ last'.err = Ok => size' = size + 1]_vars

C10_Witness ==
    /\ last.op = "insert"
    /\ last.err = OutOfBounds
    /\ size = 2
    /\ HasNodes(root)

(* C11: insert succeeds exactly when the datum lies in the closed root     *)
(* rectangle.  Point tree: Err(OutOfBounds) iff the point is outside        *)
(* [x1,x2] x [y1,y2], a point on the boundary is accepted.  Bounds tree:    *)
(* Err(CannotMakeBbox) when the datum has no bbox, otherwise                *)
(* Err(OutOfBounds) iff the bbox is not contained (<= / >=) in the root     *)
(* rectangle.  Every other insert returns Ok.                               *)
C11_InsertBoundsCheck ==
    last.op = "insert" =>
        IF variant = "point"
        THEN /\ last.err = OutOfBounds <=> ~PointWithin(root.bounds, last.q)
             /\ last.err = Ok <=> PointWithin(root.bounds, last.q)
        ELSE /\ last.err = CannotMakeBbox <=> last.q.kind = "LineString"
             /\ last.err = OutOfBounds <=>
                    (last.q.kind = "Rect" /\ ~BoxWithin(root.bounds, last.q))
             /\ last.err = Ok <=> (last.q.kind = "Rect" /\ BoxWithin(root.bounds, last.q))

C11_Witness ==
    /\ variant = "point" /\ last.op = "insert" /\ last.err = Ok
    /\ last.q.x1 = root.bounds.x2 /\ last.q.y1 = root.bounds.y2
    /\ HasNodes(root) /\ size = 3

(* Data held by the nodes of the subtree of n *)
HeldBelow(n) ==
    UNION {Range(m.children) \cup Range(m.stuck_children) : m \in AllNodes(n)}

(* Position of a datum in a sequence that holds it *)
PosIn(seq, d) == CHOOSE i \in 1..Len(seq) : seq[i] = d

Before(seq, A, B) == \A a \in A, b \in B : PosIn(seq, a) < PosIn(seq, b)

C18_LeafCapacity ==
    \A n \in AllNodes(root) :
        (~HasNodes(n) /\ n.depth < n.max_depth) => Len(n.children) <= n.max_children

C18_Witness ==
    /\ HasNodes(root) /\ size = 3
    /\ \E n \in AllNodes(root) :
          /\ ~HasNodes(n) /\ n.depth < n.max_depth
          /\ n.max_children > 0 /\ Len(n.children) = n.max_children

-----------------------------------------------------------------------------
(* Properties of the searches *)

Touches(a, b) == a.x1 <= b.x2 /\ b.x1 <= a.x2 /\ a.y1 <= b.y2 /\ b.y1 <= a.y2

(* C5: retrieval soundness: for an in-bounds query on a bounds tree,      *)
(* retrieve yields every stored feature whose geometry touches the         *)
(* query's bbox, boundary contact included, also when the feature is       *)
(* stored in a sibling of the sub-node that contains the query.            *)
C5_RetrieveSound ==
    (variant = "bounds" /\ last.op = "retrieve" /\ last.q.kind = "Rect"
        /\ BoxWithin(root.bounds, last.q)) =>
        \A d \in Range(stored) : Touches(d, last.q) => d \in Range(last.out)

FindCase == last.op = "find_r" /\ DistBbox(last.q, root.bounds) = 0 /\ size > 0

(* C12: find_r(q, r) returns data at a distance equal to r: for an         *)
(* in-bounds comparator on a non-empty tree, find_r returns Ok whenever     *)
(* some stored datum has distance <= r (exactly r and r = 0 included), and  *)
(* Err(NoneInRadius) only when every stored datum is farther than r.        *)
C12_FindAtRadius ==
    FindCase =>
        /\ (\E d \in Range(stored) : DistGeom(last.q, d) <= last.r) => last.err = Ok
        /\ last.err = NoneInRadius =>
              \A d \in Range(stored) : DistGeom(last.q, d) > last.r

(* C13: error outcomes of find / find_r: Err(OutOfBounds) whenever the    *)
(* comparator's bbox-distance to the root rectangle is not zero, also on   *)
(* an empty tree; otherwise Err(Empty) when size = 0; Err(NoneInRadius)    *)
(* only for an in-bounds comparator on a non-empty tree; an error carries  *)
(* no result.                                                              *)
C13_FindErrors ==
    last.op = "find_r" =>
        /\ DistBbox(last.q, root.bounds) # 0 => last.err = OutOfBounds
        /\ (DistBbox(last.q, root.bounds) = 0 /\ size = 0) => last.err = Empty
        /\ last.err = NoneInRadius => (DistBbox(last.q, root.bounds) = 0 /\ size > 0)
        /\ last.err \in {Ok, OutOfBounds, Empty, NoneInRadius}
        /\ last.err # Ok => last.out = <<>>
        /\ last.err = Ok => Len(last.out) = 1

C13_Witness ==
    /\ last.op = "find_r" /\ last.err = OutOfBounds
    /\ size = 0 /\ nextId > 0 /\ variant = "point"

-----------------------------------------------------------------------------
(* retrieve *)

OwnData(n) == Range(n.children) \cup Range(n.stuck_children)

(* The sub-node of n that find_sub_node chooses for the query *)
ChosenSubNode(n, q) ==
    SubNodeAt(n, Unwrap(FindSubNode(n.bounds,
        IF variant = "point" THEN PointDatumPosition(q) ELSE BoundsDatumPosition(q))))

(* Nodes on the path from n along the chosen sub-nodes down to a leaf *)
RECURSIVE ChosenPath(_, _)
ChosenPath(n, q) ==
    IF HasNodes(n) THEN {n} \cup ChosenPath(ChosenSubNode(n, q), q) ELSE {n}

(* The query's bbox is contained in the chosen sub-node at every level *)
ContainedAllTheWay(q) ==
    \A n \in ChosenPath(root, q) : BoxWithin(n.bounds, q)

BoundsRetrieveCase ==
    variant = "bounds" /\ last.op = "retrieve" /\ last.q.kind = "Rect"
        /\ BoxWithin(root.bounds, last.q)

(* C16: order of the bounds-tree retrieve: the direct and stuck children  *)
(* of each visited node come before every datum taken from its sub-nodes,  *)
(* data of the sub-nodes appear in sub-node index order, and when the      *)
(* query's bbox is contained in the chosen sub-node at every level only    *)
(* data held by the nodes of that root-to-leaf path are yielded.           *)
C16_RetrieveOrder ==
    BoundsRetrieveCase =>
        LET out == last.out
            Got(S) == S \cap Range(out)
        IN /\ \A d \in Range(out) : Count(out, d) = 1
           /\ \A n \in AllNodes(root) : HasNodes(n) =>
                 /\ Before(out, Got(OwnData(n)),
                           Got(UNION {HeldBelow(SubNodes(n)[i]) : i \in 1..4}))
                 /\ \A i, j \in 1..4 : i < j =>
                       Before(out, Got(HeldBelow(SubNodes(n)[i])),
                              Got(HeldBelow(SubNodes(n)[j])))
           /\ ContainedAllTheWay(last.q) =>
                 Range(out) \subseteq UNION {OwnData(n) : n \in ChosenPath(root, last.q)}

C16_Witness ==
    /\ BoundsRetrieveCase /\ ContainedAllTheWay(last.q)
    /\ size = 3 /\ Len(last.out) = 2
    /\ last.out[1] \in Range(root.stuck_children)
    /\ last.out[2] \notin OwnData(root)

(* The leaf at the end of the chosen path *)
ChosenLeaf(q) == CHOOSE n \in ChosenPath(root, q) : ~HasNodes(n)

(* C17: retrieve never fails and never changes the tree.  It yields the    *)
(* empty sequence for a query out of the root rectangle (point tree) and   *)
(* for a query whose bbox is missing or not contained in the root          *)
(* rectangle (bounds tree); for an in-bounds query on a point tree it      *)
(* yields exactly the children of the single leaf reached by following     *)
(* find_sub_node from the root.                                            *)
C17_RetrieveTotal ==
    [][last'.op = "retrieve" =>
        /\ root' = root /\ size' = size /\ stored' = stored
        /\ last'.err = Ok
        /\ IF variant = "point"
           THEN IF PointWithin(root.bounds, last'.q)
                THEN last'.out = ChosenLeaf(last'.q).children
                ELSE last'.out = <<>>
           ELSE (last'.q.kind # "Rect" \/ ~BoxWithin(root.bounds, last'.q)) =>
                    last'.out = <<>>]_vars

C17_Witness ==
    /\ variant = "point" /\ last.op = "retrieve"
    /\ PointWithin(root.bounds, last.q)
    /\ HasNodes(root) /\ size = 3 /\ Len(last.out) = 2

-----------------------------------------------------------------------------
(* k nearest neighbours *)

KnnCase == last.op = "knn_r" /\ last.err = Ok

Returned(out) == {out[i][1] : i \in 1..Len(out)}

WithinRadius(q, r) == {d \in Range(stored) : DistGeom(q, d) <= r}

C8_KnnAtMostK == KnnCase => Len(last.out) <= last.k

(* C14: outcomes of knn / knn_r: Err(OutOfBounds) when the comparator's   *)
(* bbox-distance to the root rectangle is not zero; for an in-bounds       *)
(* comparator Ok, never an error, and the vector is empty when the tree is *)
(* empty or no stored datum is within r.                                   *)
C14_KnnOutcomes ==
    last.op = "knn_r" =>
        /\ DistBbox(last.q, root.bounds) # 0 => (last.err = OutOfBounds /\ last.out = <<>>)
        /\ DistBbox(last.q, root.bounds) = 0 =>
              /\ last.err = Ok
              /\ (size = 0 \/ WithinRadius(last.q, last.r) = {}) => last.out = <<>>

C14_Witness ==
    /\ last.op = "knn_r" /\ last.err = Ok /\ last.out = <<>>
    /\ last.k = 2 /\ last.r = 2 /\ size = 3 /\ HasNodes(root)

-----------------------------------------------------------------------------
(* Distance-sorted iterator *)

-----------------------------------------------------------------------------
(* Distances between geometries *)

(* The gap between two closed intervals, negative or zero when they touch  *)
(* or overlap                                                              *)
Gap(lo1, hi1, lo2, hi2) == MaxOf(lo2 - hi1, lo1 - hi2)

(* C19: Euclidean rect-rect distance: 0 when the projections overlap or    *)
(* touch on both axes, the positive vertical gap when only the             *)
(* x-projections overlap, the positive horizontal gap when only the        *)
(* y-projections overlap, the distance between the two nearest corners     *)
(* otherwise; never negative, and 0 iff the rectangles touch or overlap.   *)
C19_RectRectDistance ==
    last.op = "dist_bounds_bounds" =>
        LET b1 == last.q[1]
            b2 == last.q[2]
            gx == Gap(b1.x1, b1.x2, b2.x1, b2.x2)
            gy == Gap(b1.y1, b1.y2, b2.y1, b2.y2)
            d == last.out[1].val
        IN /\ ~d.neg
           /\ d.sq = 0 <=> (gx <= 0 /\ gy <= 0)
           /\ d = (IF gx <= 0 /\ gy <= 0 THEN Lin(0)
                   ELSE IF gx <= 0 THEN Lin(gy)
                   ELSE IF gy <= 0 THEN Lin(gx)
                   ELSE Root(gx * gx + gy * gy))

(* C20: the metric is symmetric across the geometry dispatch: for every    *)
(* ordered pair of geometry kinds, owned or borrowed, dist(a, b) and       *)
(* dist(b, a) both fail or both succeed with the same value                *)
(* (dist_haversine, and the Euclidean dist_bounds_bounds).                 *)
C20_DistSymmetric ==
    last.op \in {"dist_haversine", "dist_bounds_bounds"} =>
        /\ last.out[1].err = Ok <=> last.out[2].err = Ok
        /\ last.out[1].err = Ok => last.out[1].val = last.out[2].val

(* The pairs of kinds for which spherical/math.rs has no function: neither *)
(* side is a Point and the pair is not two rectangles                      *)
NoFormula(k1, k2) ==
    /\ k1 # "Point" /\ k2 # "Point"
    /\ ~(k1 = "Rect" /\ k2 = "Rect")

(* C21: a distance request for a pair of kinds that has no formula         *)
(* (spherical Line-Line, Polygon-Polygon, Rect-Line, ...) returns          *)
(* Err(UnsupportedGeometry).                                               *)
C21_UnsupportedPairs ==
    (last.op = "dist_haversine" /\ NoFormula(last.q[1].kind, last.q[2].kind)) =>
        /\ last.out[1] = DistErr(UnsupportedGeometry)
        /\ last.out[2] = DistErr(UnsupportedGeometry)

-----------------------------------------------------------------------------
(* Properties of the node structure *)

(* Twice the midpoint of a rectangle, per axis *)
Mid2X(b) == b.x1 + b.x2
Mid2Y(b) == b.y1 + b.y2

(* The sub-nodes of n are the four quarters of n.bounds around its         *)
(* midpoint, in the order tl, tr, br, bl, one level deeper, with n's       *)
(* thresholds                                                              *)
QuarteredInOrder(n) ==
    LET b == n.bounds
        s == SubNodes(n)
    IN /\ Len(s) = 4
       /\ \A i \in 1..4 :
              /\ s[i].depth = n.depth + 1
              /\ s[i].max_depth = n.max_depth
              /\ s[i].max_children = n.max_children
              /\ BoxWithin(b, s[i].bounds)
              /\ s[i].bounds.x1 < s[i].bounds.x2 /\ s[i].bounds.y1 < s[i].bounds.y2
              /\ 2 * s[i].bounds.x1 = (IF i \in {1, 4} THEN 2 * b.x1 ELSE Mid2X(b))
              /\ 2 * s[i].bounds.x2 = (IF i \in {1, 4} THEN Mid2X(b) ELSE 2 * b.x2)
              /\ 2 * s[i].bounds.y1 = (IF i \in {1, 2} THEN 2 * b.y1 ELSE Mid2Y(b))
              /\ 2 * s[i].bounds.y2 = (IF i \in {1, 2} THEN Mid2Y(b) ELSE 2 * b.y2)
       /\ \A i, j \in 1..4 :
              i # j => (\/ s[i].bounds.x2 <= s[j].bounds.x1
                        \/ s[j].bounds.x2 <= s[i].bounds.x1
                        \/ s[i].bounds.y2 <= s[j].bounds.y1
                        \/ s[j].bounds.y2 <= s[i].bounds.y1)
       /\ Width(s[1].bounds) + Width(s[2].bounds) = Width(b)
       /\ Height(s[1].bounds) + Height(s[4].bounds) = Height(b)

(* new keeps the bounds of old, and the bounds of every sub-node old has *)
RECURSIVE KeepsBounds(_, _)
KeepsBounds(new, old) ==
    /\ new.bounds = old.bounds
    /\ HasNodes(old) =>
           /\ HasNodes(new)
           /\ \A i \in 1..4 : KeepsBounds(SubNodes(new)[i], SubNodes(old)[i])

(* C22: subdivide creates four sub-nodes whose bounds lie inside the       *)
(* parent's bounds, cover it exactly with pairwise disjoint interiors, in  *)
(* the order [TL, TR, BR, BL] around the parent's midpoint; each sub-node  *)
(* has depth = parent depth + 1 and the parent's max_depth and             *)
(* max_children; once set, the bounds of a node and of its sub-nodes never *)
(* change under later inserts.                                             *)
C22_SubdivideTiles ==
    /\ [](\A n \in AllNodes(root) : HasNodes(n) => QuarteredInOrder(n))
    /\ [][KeepsBounds(root', root)]_vars

C22_Witness ==
    /\ HasNodes(root)
    /\ \E i \in 1..4 : HasNodes(SubNodes(root)[i])
    /\ last.op = "insert" /\ last.err = Ok
    /\ size = 3

(* The coordinates of the closed rectangle b *)
CoordsIn(b) == {[x |-> x, y |-> y] : x \in b.x1..b.x2, y \in b.y1..b.y2}

(* C23: find_sub_node maps a coordinate (x, y) to TL when x <= mx and      *)
(* y <= my, TR when x > mx and y <= my, BL when x <= mx and y > my, BR     *)
(* otherwise (ties on a midline go to top / left), and for every           *)
(* coordinate inside the node's bounds the sub-node at the returned index, *)
(* as built by subdivide, has bounds containing that coordinate.           *)
C23_FindSubNodeQuadrant ==
    \A n \in AllNodes(root) :
        HasNodes(n) =>
            \A c \in CoordsIn(n.bounds) :
                LET b == n.bounds
                    sn == FindSubNode(b, Some(c))
                    left == 2 * c.x <= Mid2X(b)
                    top == 2 * c.y <= Mid2Y(b)
                IN /\ IsSome(sn)
                   /\ Unwrap(sn) = (IF left /\ top THEN TopLeft
                                    ELSE IF top THEN TopRight
                                    ELSE IF left THEN BottomLeft
                                    ELSE BottomRight)
                   /\ pt_in_rect(SubNodeAt(n, Unwrap(sn)).bounds, c)

(* A point on both midlines of the root was sent to the top-left sub-node, *)
(* and a sub-node was subdivided in turn                                   *)
C23_Witness ==
    /\ variant = "point"
    /\ HasNodes(root)
    /\ \E i \in 1..4 : HasNodes(SubNodes(root)[i])
    /\ \E d \in HeldBelow(SubNodes(root)[1]) :
           2 * d.x1 = Mid2X(root.bounds) /\ 2 * d.y1 = Mid2Y(root.bounds)

-----------------------------------------------------------------------------
(* Properties of insert *)

(* Index (1..4) of the sub-node of n that find_sub_node chooses for q *)
ChosenIndex(n, q) ==
    Unwrap(FindSubNode(n.bounds,
        IF variant = "point" THEN PointDatumPosition(q) ELSE BoundsDatumPosition(q))) + 1

(* The path of sub-node indices an insert of q follows from n: down the    *)
(* chosen sub-nodes, in the bounds tree as long as they contain the bbox   *)
RECURSIVE ReachedPath(_, _)
ReachedPath(n, q) ==
    IF HasNodes(n) /\ (variant = "point"
                        \/ BoxWithin(SubNodes(n)[ChosenIndex(n, q)].bounds, q))
    THEN <<ChosenIndex(n, q)>> \o ReachedPath(SubNodes(n)[ChosenIndex(n, q)], q)
    ELSE <<>>

RECURSIVE NodeAt(_, _)
NodeAt(n, path) ==
    IF path = <<>> THEN n ELSE NodeAt(SubNodes(n)[Head(path)], Tail(path))

(* C24: an insert that reaches a non-subdivided node subdivides it if and  *)
(* only if the node already holds at least max_children children and its   *)
(* depth is below max_depth; otherwise the datum is appended to the node's *)
(* children.  Hence no node has depth greater than max_depth, and a leaf   *)
(* at depth = max_depth takes children beyond max_children without         *)
(* splitting.                                                              *)
C24_SubdivideIff ==
    /\ [][(nextId' # nextId /\ last'.err = Ok) =>
            LET path == ReachedPath(root, last'.q)
                old == NodeAt(root, path)
                new == NodeAt(root', path)
            IN ~HasNodes(old) =>
                   /\ HasNodes(new) <=> (Len(old.children) >= old.max_children
                                            /\ old.depth < old.max_depth)
                   /\ ~HasNodes(new) => new.children = Append(old.children, last'.q)]_vars
    /\ [](\A n \in AllNodes(root) : n.depth <= n.max_depth)

(* A leaf at the depth cap holds more than max_children, next to a leaf    *)
(* that was split                                                          *)
C24_Witness ==
    /\ HasNodes(root)
    /\ last.op = "insert" /\ last.err = Ok
    /\ \E n \in AllNodes(root) :
           /\ ~HasNodes(n) /\ n.depth = n.max_depth /\ n.depth > 0
           /\ Len(n.children) > n.max_children + 1
           /\ last.q \in Range(n.children)

(* Data a node holds in one of its lists are in the order of their insert  *)
(* calls                                                                   *)
InInsertOrder(seq) == \A i, j \in 1..Len(seq) : i < j => seq[i].id < seq[j].id

(* C29: no datum is lost, duplicated or reordered within its node by       *)
(* insertion: after a successful insert of d, the multiset of data         *)
(* reachable from the root is the previous multiset plus d (also when the  *)
(* insert triggers nested subdivisions), and data held by the same node    *)
(* appear in that node in the order in which they were inserted.           *)
C29_InsertKeepsData ==
    /\ [][(nextId' # nextId /\ last'.err = Ok) =>
            \A d \in Range(Descendants(root)) \cup Range(Descendants(root')) \cup {last'.q} :
                Count(Descendants(root'), d) =
                    Count(Descendants(root), d) + (IF d = last'.q THEN 1 ELSE 0)]_vars
    /\ [](\A n \in AllNodes(root) :
              InInsertOrder(n.children) /\ InInsertOrder(n.stuck_children))

(* With max_children = 2 the third insert subdivided the root and one of  *)
(* its sub-nodes in the same call, and left a node holding several data    *)
C29_Witness ==
    /\ last.op = "insert" /\ last.err = Ok /\ size = 3
    /\ root.max_children = 2
    /\ HasNodes(root)
    /\ \E i \in 1..4 : HasNodes(SubNodes(root)[i])
    /\ \E n \in AllNodes(root) : Len(Children(n)) >= 2 /\ last.q \in Range(Children(n))


(* Depths in the arena: no node deeper than max_depth, max_depth a u8, and *)
(* every sub-node exactly one level below its parent                       *)
DepthsFit ==
    \A id \in 1..Len(arena) :
        LET n == arena[id] IN
        /\ n.depth <= n.max_depth
        /\ n.max_depth <= U8Max
        /\ HasNodes(n) => \A i \in 1..4 : arena[SubNodes(n)[i]].depth = n.depth + 1

(* C30: every insert terminates: the recursion of Node::insert (the        *)
(* re-insert loop after a subdivision included) descends at most           *)
(* max_depth levels, even when all inserted data coincide or               *)
(* max_children = 0, and the u8 computation depth + 1 in subdivide never   *)
(* overflows for any max_depth up to 255, because subdivide is only called *)
(* on nodes with depth < max_depth.                                        *)
C30_InsertTerminates ==
    /\ (calls # <<>>) ~> (calls = <<>>)
    /\ [](\A i \in 1..Len(calls) : arena[calls[i].node].depth <= arena[1].max_depth)
    /\ []DepthsFit

(* Coinciding data on a tree with max_depth = 255 and max_children = 0:    *)
(* the first insert subdivided 255 times, the second followed it down, and *)
(* both inserts returned                                                   *)
C30_Witness ==
    /\ arena # <<>> /\ calls = <<>>
    /\ arena[1].max_depth = U8Max /\ arena[1].max_children = 0
    /\ size = 2 /\ last.op = "insert" /\ last.err = Ok
    /\ \E id \in 1..Len(arena) :
           arena[id].depth = U8Max /\ Len(arena[id].children) = 2

C26_DraftStuckContained ==
    variant = "draft_bounds" =>
        \A n \in AllNodes(root) :
            \A i \in 1..Len(n.stuck_children) : BoxWithin(n.bounds, n.stuck_children[i])

-----------------------------------------------------------------------------
(* Properties of the QuadTree of src/lib.rs *)

(* The closed rectangle of a Bounds given as origin, width and height *)
LibRect(b) == Rect(b.x, b.y, b.x + b.width, b.y + b.height)

(* The quarter of rectangle r that the SubNode index names *)
QuarterOf(r, idx) ==
    LET mx == r.x1 + Half(Width(r))
        my == r.y1 + Half(Height(r))
    IN Rect(IF idx \in {TopLeft, BottomLeft} THEN r.x1 ELSE mx,
            IF idx \in {TopLeft, TopRight} THEN r.y1 ELSE my,
            IF idx \in {TopLeft, BottomLeft} THEN mx ELSE r.x2,
            IF idx \in {TopLeft, TopRight} THEN my ELSE r.y2)

(* C27: in the QuadTree of src/lib.rs, the array built by subdivide is in  *)
(* the order tl, tr, br, bl that the SubNode indices (TopLeft = 0,         *)
(* TopRight = 1, BottomRight = 2, BottomLeft = 3) returned by              *)
(* find_sub_node assume, so after any sequence of inserts every stored     *)
(* point lies within the bounds of the leaf node that holds it.            *)
C27_LibSubNodeOrder ==
    variant = "lib" =>
        \A n \in AllNodes(root) :
            /\ HasNodes(n) =>
                   \A idx \in {TopLeft, TopRight, BottomRight, BottomLeft} :
                       LibRect(SubNodeAt(n, idx).bounds) = QuarterOf(LibRect(n.bounds), idx)
            /\ \A i \in 1..Len(n.children) :
                   PointWithin(LibRect(root.bounds), n.children[i]) =>
                       PointWithin(LibRect(n.bounds), n.children[i])

(* C28: the containment test of the bounds check before insert returns     *)
(* true exactly when x1 <= x <= x2 and y1 <= y <= y2 for the rectangle     *)
(* [x1,x2] x [y1,y2]; consequently inserting a point outside the root      *)
(* bounds on either axis stores nothing and leaves size unchanged.         *)
C28_LibBoundsCheck ==
    [][(variant = "lib" /\ nextId' # nextId) =>
          /\ LibInBounds(last'.q, root.bounds) <=> PointWithin(LibRect(root.bounds), last'.q)
          /\ ~PointWithin(LibRect(root.bounds), last'.q) => (root' = root /\ size' = size)]_vars

=============================================================================
